---- MODULE Spec2Model ----
(***************************************************************************)
(* A model of src/main.py (EnhancedJobScraper): the two-tier page fetch,   *)
(* the link extraction, the job-page parse with its OLLama fallback, and   *)
(* the crawl driver with its push to the ingestion API.                    *)
(*                                                                         *)
(* Python values are modelled as records of one shape per kind, so that    *)
(* None is a record too:                                                   *)
(*   markup  [src, len, loading]   src = "none" is None                    *)
(*   text    [src, len]            src = "none" is None, len = 0 is ""     *)
(*   url     [form, host, seg, n]  form = "none" is None, "full" has a     *)
(*           scheme (its host is the netloc, "" for mailto:), "rel" is a   *)
(*           path reference such as /apply/42, "empty" is href=""          *)
(***************************************************************************)
EXTENDS Integers, Sequences, FiniteSets, TLC

VARIABLES
    pc,             \* position of main(): load, pass, loop, flush, cleanup, done
    urls_file,      \* what _load_start_urls found the file to be, "unread" before
    start_urls,     \* crawl(): the list _load_start_urls returned
    seed_idx,       \* crawl(): index in start_urls of the current start_url
    queue,          \* self.queue
    visited_urls,   \* self.visited_urls
    pages_crawled,  \* crawl(): local counter of the current pass
    successful_jobs,\* crawl(): local counter of the current pass
    scraped_jobs,   \* self.scraped_jobs
    driver,         \* self.driver: "none", "live" or "quit"
    use_selenium,   \* self.use_selenium
    session,        \* self.session: "open" or "closed"
    saved,          \* what save_jobs_to_json did: "no", "written", "skipped", "error"
    crashed,        \* an exception left crawl() or save_jobs_to_json()
    api_received,   \* the records the ingestion endpoint accepted, in order
    popped,         \* the URLs popped from the queue in the current pass, in order
    last,           \* what the last loop iteration did
    fn_in,          \* the arguments of a single call under study
    fn_out          \* its result

vars == << pc, urls_file, start_urls, seed_idx, queue, visited_urls, pages_crawled,
           successful_jobs, scraped_jobs, driver, use_selenium, session, saved,
           crashed, api_received, popped, last, fn_in, fn_out >>

crawl_vars == << urls_file, start_urls, seed_idx, queue, visited_urls, pages_crawled,
                 successful_jobs, scraped_jobs, driver, use_selenium, session,
                 saved, crashed, api_received, popped, last >>

(***************************************************************************)
(* Program constants.                                                      *)
(***************************************************************************)
max_pages_per_domain == 30
QueueCap == 50
LinkCap == 20
JsHeavyLen == 1000
DescMinLen == 100
DescMaxLen == 2000

(***************************************************************************)
(* Python values.                                                          *)
(***************************************************************************)
NoMarkup == [src |-> "none", len |-> 0, loading |-> FALSE]
NoText == [src |-> "none", len |-> 0]
NoUrl == [form |-> "none", host |-> "", seg |-> "", n |-> 0]

\* bool(html_content): None and "" are falsy.
MarkupTruthy(m) == m.src # "none" /\ m.len > 0
\* bool(text)
TextTruthy(t) == t.src # "none" /\ t.len > 0
\* bool(url string): None and "" are falsy.
UrlTruthy(u) == u.form \notin {"none", "empty"}

Url(h, s, i) == [form |-> "full", host |-> h, seg |-> s, n |-> i]
Rel(s, i) == [form |-> "rel", host |-> "", seg |-> s, n |-> i]
NetRel(h, s, i) == [form |-> "netrel", host |-> h, seg |-> s, n |-> i]
EmptyRef == [form |-> "empty", host |-> "", seg |-> "", n |-> 0]

\* urllib.parse.urljoin(base, ref): a reference with a scheme is kept, a path
\* reference (/apply/42) takes the base's scheme and netloc, a network-path
\* reference (//host/path) the base's scheme only, an empty one gives the base.
urljoin(base, ref) ==
    CASE ref.form = "full" -> ref
      [] ref.form = "rel" -> Url(base.host, ref.seg, ref.n)
      [] ref.form = "netrel" -> Url(ref.host, ref.seg, ref.n)
      [] OTHER -> base

\* urlparse(url).netloc
netloc(u) == u.host

\* str.startswith(('http://', 'https://')): a full URL that has a netloc.
StartsWithHttp(u) == u.form = "full" /\ u.host # ""

Min(a, b) == IF a < b THEN a ELSE b

(***************************************************************************)
(* The page fetch: _fetch_page and the two tiers it calls.                 *)
(*                                                                         *)
(* The outcome of the network is an input: `static` is what                *)
(* _fetch_page_requests returns (NoMarkup after a RequestException), and   *)
(* each call of _fetch_page_selenium has an outcome [setup_ok, page]:      *)
(* whether uc.Chrome() could be built if it has to be, and the page_source *)
(* driver.get leads to (NoMarkup when it raises).  `st` holds the two      *)
(* fields the fetch reads and writes, [driver, use_selenium].              *)
(***************************************************************************)

\* _get_selenium_driver: builds the driver once; a failure to build it turns
\* use_selenium off and leaves the driver None.
GetSeleniumDriver(st, e) ==
    IF st.driver = "none"
    THEN IF e.setup_ok
         THEN [driver |-> "live", use_selenium |-> st.use_selenium]
         ELSE [driver |-> "none", use_selenium |-> FALSE]
    ELSE st

\* _fetch_page_selenium: None without a driver, else the page source or None.
FetchPageSelenium(st, e) ==
    LET st1 == GetSeleniumDriver(st, e)
    IN  IF st1.driver = "none"
        THEN [html |-> NoMarkup, st |-> st1, gets |-> 0]
        ELSE [html |-> e.page, st |-> st1, gets |-> 1]

\* len(html_content) < 1000 or 'loading' in html_content.lower()
SeemsJsHeavy(m) == m.len < JsHeavyLen \/ m.loading

\* _fetch_page, were its fallback not to ask whether Selenium is in use (what
\* C20 rests on).
FetchPage_IgnoresSwitch(st, static, e1, e2) ==
    LET fallback == ~MarkupTruthy(static)
        r1 == IF fallback THEN FetchPageSelenium(st, e1)
                          ELSE [html |-> static, st |-> st, gets |-> 0]
        retry == MarkupTruthy(r1.html) /\ r1.st.use_selenium /\ SeemsJsHeavy(r1.html)
        r2 == IF retry THEN FetchPageSelenium(r1.st, e2)
                       ELSE [html |-> NoMarkup, st |-> r1.st, gets |-> 0]
        html == IF retry /\ MarkupTruthy(r2.html) /\ r2.html.len > r1.html.len
                THEN r2.html ELSE r1.html
        \* a call of _fetch_page_selenium returned a page source
        rendered == (fallback /\ r1.html.src # "none") \/ (retry /\ r2.html.src # "none")
    IN  [html |-> html,
         both_failed |-> static.src = "none" /\ ~rendered,
         driver |-> r2.st.driver,
         use_selenium |-> r2.st.use_selenium,
         selenium_calls |-> (IF fallback THEN 1 ELSE 0) + (IF retry THEN 1 ELSE 0),
         driver_gets |-> r1.gets + r2.gets]

\* _fetch_page, were it to keep the retry's page when it is as long as what it
\* had (what C11 rests on).
FetchPage_KeepsNotShorter(st, static, e1, e2) ==
    LET fallback == ~MarkupTruthy(static) /\ st.use_selenium
        r1 == IF fallback THEN FetchPageSelenium(st, e1)
                          ELSE [html |-> static, st |-> st, gets |-> 0]
        retry == MarkupTruthy(r1.html) /\ r1.st.use_selenium /\ SeemsJsHeavy(r1.html)
        r2 == IF retry THEN FetchPageSelenium(r1.st, e2)
                       ELSE [html |-> NoMarkup, st |-> r1.st, gets |-> 0]
        html == IF retry /\ MarkupTruthy(r2.html) /\ r2.html.len >= r1.html.len
                THEN r2.html ELSE r1.html
        \* a call of _fetch_page_selenium returned a page source
        rendered == (fallback /\ r1.html.src # "none") \/ (retry /\ r2.html.src # "none")
    IN  [html |-> html,
         both_failed |-> static.src = "none" /\ ~rendered,
         driver |-> r2.st.driver,
         use_selenium |-> r2.st.use_selenium,
         selenium_calls |-> (IF fallback THEN 1 ELSE 0) + (IF retry THEN 1 ELSE 0),
         driver_gets |-> r1.gets + r2.gets]

\* _fetch_page: requests first; Selenium if that gave nothing; Selenium (again)
\* if what there is by then seems JS-heavy, kept when it is longer.
FetchPage(st, static, e1, e2) ==
    LET fallback == ~MarkupTruthy(static) /\ st.use_selenium
        r1 == IF fallback THEN FetchPageSelenium(st, e1)
                          ELSE [html |-> static, st |-> st, gets |-> 0]
        retry == MarkupTruthy(r1.html) /\ r1.st.use_selenium /\ SeemsJsHeavy(r1.html)
        r2 == IF retry THEN FetchPageSelenium(r1.st, e2)
                       ELSE [html |-> NoMarkup, st |-> r1.st, gets |-> 0]
        html == IF retry /\ MarkupTruthy(r2.html) /\ r2.html.len > r1.html.len
                THEN r2.html ELSE r1.html
        \* a call of _fetch_page_selenium returned a page source
        rendered == (fallback /\ r1.html.src # "none") \/ (retry /\ r2.html.src # "none")
    IN  [html |-> html,
         both_failed |-> static.src = "none" /\ ~rendered,
         driver |-> r2.st.driver,
         use_selenium |-> r2.st.use_selenium,
         selenium_calls |-> (IF fallback THEN 1 ELSE 0) + (IF retry THEN 1 ELSE 0),
         driver_gets |-> r1.gets + r2.gets]

(***************************************************************************)
(* The link extraction: _extract_links.                                    *)
(*                                                                         *)
(* A URL's path and query are its `seg` and `n`: /jobs/n and /apply/n      *)
(* match the job-related path pattern, seg "page" is /?page=n (the         *)
(* pagination pattern), /hiring/n has one of the keywords, /about/n has    *)
(* none.  A host may carry a keyword itself (jobs.lever.co).               *)
(***************************************************************************)
HostHasKeyword(h) == h = "jobs.lever.co"

\* re.search(r'/job|/jobs|/careers|/apply|...', parsed_url.path, re.IGNORECASE)
PathJobRelated(u) == u.seg \in {"jobs", "apply"}
\* re.search(r'page=\d+|start=\d+|offset=\d+|p=\d+', parsed_url.query, ...)
QueryPagination(u) == u.seg = "page"
\* any(keyword in full_url.lower() for keyword in ['job', 'career', ...])
UrlHasKeyword(u) == u.seg \in {"jobs", "hiring"} \/ HostHasKeyword(u.host)

\* _extract_links without its netloc test (what C4 rests on).
LinkAccepted_AnyHost(full_url, base_url, visited) ==
    /\ full_url \notin visited
    /\ \/ PathJobRelated(full_url)
       \/ QueryPagination(full_url)
       \/ UrlHasKeyword(full_url)

\* The condition under which _extract_links appends full_url.
LinkAccepted(full_url, base_url, visited) ==
    /\ netloc(full_url) = netloc(base_url)
    /\ full_url \notin visited
    /\ \/ PathJobRelated(full_url)
       \/ QueryPagination(full_url)
       \/ UrlHasKeyword(full_url)

\* The loop of _extract_links from anchor i on: each href resolved against
\* base_url, the accepted ones appended in document order.
RECURSIVE AcceptedFrom(_, _, _, _)
AcceptedFrom(anchors, base_url, visited, i) ==
    IF i > Len(anchors) THEN << >>
    ELSE LET full_url == urljoin(base_url, anchors[i])
             more == AcceptedFrom(anchors, base_url, visited, i + 1)
         IN  IF LinkAccepted(full_url, base_url, visited)
             THEN << full_url >> \o more ELSE more

\* _extract_links: links[:20]
ExtractLinks(anchors, base_url, visited) ==
    LET links == AcceptedFrom(anchors, base_url, visited, 1)
    IN  SubSeq(links, 1, Min(Len(links), LinkCap))

(***************************************************************************)
(* The job-page parse: _parse_job_page and get_job_details_with_ollama.    *)
(*                                                                         *)
(* A page's markup is, for each field, the elements its selector list      *)
(* finds, in the order of the list: their texts ([src, len], src naming    *)
(* the element) or their href/src attributes (a url, NoUrl when the        *)
(* element has none), and `anchors`, the hrefs of its <a href> elements.   *)
(***************************************************************************)
NoDate == [src |-> "none"]
DateTruthy(d) == d.src # "none"

\* The first of the elements of s that pass (ok: their indices), None (the
\* given default) without one.
First(s, ok, default) ==
    IF ok = {} THEN default
    ELSE s[CHOOSE i \in ok : \A j \in ok : i <= j]

\* The indices of the elements a selector loop stops at.
TruthyTexts(s) == {i \in 1..Len(s) : TextTruthy(s[i])}
TruthyUrls(s) == {i \in 1..Len(s) : UrlTruthy(s[i])}

\* parse_date_string: a datetime for the formats and the "N units ago" it
\* knows, None for anything else.
parse_date_string(d) ==
    IF d.src \in {"iso", "ago"} THEN [src |-> "datetime", of |-> d.src] ELSE NoDate

EmptyGuess ==
    [job_title |-> NoText, job_description |-> NoText, job_location |-> NoText,
     apply_url |-> NoUrl, company_image |-> NoUrl, date_posted |-> NoDate]

\* get_job_details_with_ollama: {} unless the request succeeded and the answer
\* held a JSON object; then that object, its apply_url made absolute and its
\* date_posted parsed.
get_job_details_with_ollama(o, url) ==
    IF o.status # "ok" THEN EmptyGuess
    ELSE [o.guess EXCEPT
            !.apply_url = IF UrlTruthy(@) /\ ~StartsWithHttp(@)
                          THEN urljoin(url, @) ELSE @,
            !.date_posted = IF DateTruthy(@) THEN parse_date_string(@) ELSE @]

\* The structural pass without its default for apply_url (what C17 rests on).
StructuralPass_NoDefault(dom, url) ==
    LET DescOk(t) == t.len > DescMinLen
        apply_href == First(dom.apply_elems, TruthyUrls(dom.apply_elems), NoUrl)
        apply_url == IF UrlTruthy(apply_href) THEN urljoin(url, apply_href) ELSE NoUrl
        img_src == First(dom.img_elems, TruthyUrls(dom.img_elems), NoUrl)
        desc == First(dom.desc_elems,
                      {i \in 1..Len(dom.desc_elems) : DescOk(dom.desc_elems[i])},
                      NoText)
    IN  [job_title |-> First(dom.title_elems, TruthyTexts(dom.title_elems), NoText),
         job_description |-> [desc EXCEPT !.len = Min(@, DescMaxLen)],
         job_location |-> First(dom.loc_elems, TruthyTexts(dom.loc_elems), NoText),
         apply_url |-> apply_url,
         company_image |-> IF UrlTruthy(img_src) THEN urljoin(url, img_src) ELSE NoUrl,
         date_posted |-> NoDate]

\* _parse_job_page up to the OLLama step: the structural pass.
StructuralPass(dom, url) ==
    LET DescOk(t) == t.len > DescMinLen
        apply_href == First(dom.apply_elems, TruthyUrls(dom.apply_elems), NoUrl)
        apply_url == IF UrlTruthy(apply_href) THEN urljoin(url, apply_href) ELSE NoUrl
        img_src == First(dom.img_elems, TruthyUrls(dom.img_elems), NoUrl)
        desc == First(dom.desc_elems,
                      {i \in 1..Len(dom.desc_elems) : DescOk(dom.desc_elems[i])},
                      NoText)
    IN  [job_title |-> First(dom.title_elems, TruthyTexts(dom.title_elems), NoText),
         job_description |-> [desc EXCEPT !.len = Min(@, DescMaxLen)],
         job_location |-> First(dom.loc_elems, TruthyTexts(dom.loc_elems), NoText),
         \* "Default apply URL to current URL if not found"
         apply_url |-> IF UrlTruthy(apply_url) THEN apply_url ELSE url,
         company_image |-> IF UrlTruthy(img_src) THEN urljoin(url, img_src) ELSE NoUrl,
         date_posted |-> NoDate]

\* The test for asking OLLama, were it to leave the location out (what C22
\* rests on).
MandatoryMissing_NoLocation(d) ==
    ~(TextTruthy(d.job_title) /\ TextTruthy(d.job_description))

\* not all([job_title, job_description, job_location])
MandatoryMissing(d) ==
    ~(TextTruthy(d.job_title) /\ TextTruthy(d.job_description)
      /\ TextTruthy(d.job_location))

\* The merge, were OLLama's value to win whenever there is one (what C12 rests
\* on).
MergeGuess_OracleWins(d, g) ==
    [job_title |-> IF TextTruthy(g.job_title) THEN g.job_title ELSE d.job_title,
     job_description |-> IF TextTruthy(g.job_description)
                         THEN g.job_description ELSE d.job_description,
     job_location |-> IF TextTruthy(g.job_location)
                      THEN g.job_location ELSE d.job_location,
     apply_url |-> IF UrlTruthy(g.apply_url) THEN g.apply_url ELSE d.apply_url,
     company_image |-> IF UrlTruthy(g.company_image)
                       THEN g.company_image ELSE d.company_image,
     date_posted |-> IF DateTruthy(g.date_posted) THEN g.date_posted ELSE d.date_posted]

\* for key in extracted_data: if not extracted_data[key] and ollama_data.get(key)
MergeGuess(d, g) ==
    [job_title |-> IF ~TextTruthy(d.job_title) /\ TextTruthy(g.job_title)
                   THEN g.job_title ELSE d.job_title,
     job_description |-> IF ~TextTruthy(d.job_description) /\ TextTruthy(g.job_description)
                         THEN g.job_description ELSE d.job_description,
     job_location |-> IF ~TextTruthy(d.job_location) /\ TextTruthy(g.job_location)
                      THEN g.job_location ELSE d.job_location,
     apply_url |-> IF ~UrlTruthy(d.apply_url) /\ UrlTruthy(g.apply_url)
                   THEN g.apply_url ELSE d.apply_url,
     company_image |-> IF ~UrlTruthy(d.company_image) /\ UrlTruthy(g.company_image)
                       THEN g.company_image ELSE d.company_image,
     date_posted |-> IF ~DateTruthy(d.date_posted) /\ DateTruthy(g.date_posted)
                     THEN g.date_posted ELSE d.date_posted]

\* _parse_job_page with a final validation that asks for the title only (what
\* C1 rests on).
ParseJobPage_TitleOnly(dom, url, o) ==
    LET d == StructuralPass(dom, url)
        missing == MandatoryMissing(d)
        merged == IF missing THEN MergeGuess(d, get_job_details_with_ollama(o, url))
                  ELSE d
    IN  [ok |-> TextTruthy(merged.job_title),
         data |-> merged,
         structural |-> d,
         ollama_calls |-> IF missing THEN 1 ELSE 0]

\* _parse_job_page: the structural pass, OLLama for what is missing, and the
\* final validation; ok = FALSE is the None it returns.
ParseJobPage(dom, url, o) ==
    LET d == StructuralPass(dom, url)
        missing == MandatoryMissing(d)
        merged == IF missing THEN MergeGuess(d, get_job_details_with_ollama(o, url))
                  ELSE d
    IN  [ok |-> TextTruthy(merged.job_title) /\ TextTruthy(merged.job_description),
         data |-> merged,
         structural |-> d,
         ollama_calls |-> IF missing THEN 1 ELSE 0]

(***************************************************************************)
(* The push: push_job_to_api.  What the endpoint answers is an input.      *)
(***************************************************************************)
PushResponses == {"ok", "http_error", "unreachable"}

\* push_job_to_api: True after a 2xx answer, False after any exception.
push_job_to_api(job, response) == response = "ok"

(***************************************************************************)
(* The crawl: main(), crawl(), save_jobs_to_json(), cleanup().             *)
(*                                                                         *)
(* The sites crawled are fixed.  example.com has three hub pages           *)
(* (/jobs/0, /jobs/1, /jobs/2), each linking to more pages than one page   *)
(* may return, so that its frontier fills up and its page budget runs out; *)
(* jobs.lever.co is a short chain of pages (and /about/0, which its host   *)
(* name lets through) whose frontier runs empty.  On jobs.lever.co,        *)
(* /jobs/1 is a job page with every field in its markup and /jobs/2 one    *)
(* with a description but no title, location or apply link; every other    *)
(* page is a listing without a title or a description.                     *)
(***************************************************************************)
HubHost == "example.com"
ChainHost == "jobs.lever.co"
OtherHost == "evil.net"

\* The longest list of start URLs, the number of links on a hub page (more
\* than LinkCap), the length of the chain.
MaxSeeds == 2
Fanout == 22
ChainLen == 3
\* The hub pages: three pages of 20 links overfill a queue of 50.
HubPaths == {0, 1, 2}

SeedUrls == {Url(HubHost, "jobs", 0), Url(ChainHost, "jobs", 0)}

\* The hrefs of the <a> elements of the page at u, in document order.
Anchors(u) ==
    LET noise == << EmptyRef, Rel("jobs", 0), Rel("about", 0),
                    Url(OtherHost, "jobs", u.n + 1), NetRel(OtherHost, "jobs", 1),
                    Url("", "mailto", 0) >>
    IN  IF u.host = HubHost
        THEN noise \o (IF u.n \in HubPaths
                       THEN [k \in 1..Fanout |-> Rel("jobs", LinkCap * u.n + k)]
                       ELSE << >>)
        ELSE noise \o (IF u.n < ChainLen
                       THEN << Rel("jobs", u.n + 1), Url(u.host, "jobs", u.n + 1) >>
                       ELSE << >>)

\* The markup of the page at u, as _parse_job_page and _extract_links see it.
Dom(u) ==
    LET listing == [title_elems |-> << >>, desc_elems |-> << [src |-> "nav", len |-> 40] >>,
                    loc_elems |-> << >>, apply_elems |-> << >>, img_elems |-> << >>]
        full == [title_elems |-> << [src |-> "h1", len |-> 0], [src |-> "h2", len |-> 12] >>,
                 desc_elems |-> << [src |-> "nav", len |-> DescMinLen],
                                   [src |-> "content", len |-> DescMaxLen + 500] >>,
                 loc_elems |-> << [src |-> "location", len |-> 6] >>,
                 apply_elems |-> << NoUrl, Rel("apply", u.n) >>,
                 img_elems |-> << Rel("logo", u.n) >>]
        partial == [title_elems |-> << >>,
                    desc_elems |-> << [src |-> "content", len |-> 300] >>,
                    loc_elems |-> << >>, apply_elems |-> << >>, img_elems |-> << >>]
    IN  CASE u.host = ChainHost /\ u.seg = "jobs" /\ u.n = 1 -> full
          [] u.host = ChainHost /\ u.seg = "jobs" /\ u.n = 2 -> partial
          [] OTHER -> listing

\* What the network does during a crawl.
CrawlStatic ==
    {NoMarkup, [src |-> "static", len |-> 400, loading |-> FALSE],
     [src |-> "static", len |-> 5000, loading |-> FALSE]}
CrawlSelenium ==
    {[setup_ok |-> FALSE, page |-> NoMarkup], [setup_ok |-> TRUE, page |-> NoMarkup],
     [setup_ok |-> TRUE, page |-> [src |-> "rendered", len |-> 5000, loading |-> FALSE]]}
\* What OLLama answers during a crawl: nothing usable, or a title with a
\* relative apply_url.
CrawlOllama ==
    {[status |-> "error", guess |-> EmptyGuess],
     [status |-> "bad_json", guess |-> EmptyGuess],
     [status |-> "ok",
      guess |-> [EmptyGuess EXCEPT !.job_title = [src |-> "ollama", len |-> 9],
                                   !.apply_url = Rel("apply", 42)]]}

NoLast ==
    [kind |-> "none", url |-> NoUrl, fetched |-> FALSE, parse_calls |-> 0,
     ollama_calls |-> 0, push_attempts |-> 0, push |-> "none", job |-> EmptyGuess,
     links |-> << >>, enqueued |-> 0, both_failed |-> FALSE]

\* _load_start_urls: [] when the file is missing or is not JSON; data.get
\* raises when the JSON is not an object (raised = TRUE); else data's urls.
SeedLists ==
    UNION {[1..k -> SeedUrls] : k \in 0..MaxSeeds}
LoadOutcomes ==
    {[file |-> "missing", urls |-> << >>], [file |-> "bad_json", urls |-> << >>],
     [file |-> "not_object", urls |-> << >>]}
    \cup {[file |-> "ok", urls |-> l] : l \in SeedLists}
\* _load_start_urls, were it to fall back on a start URL of its own when the
\* file cannot be read (what C15 rests on).
load_start_urls_FallsBack(f) ==
    [raised |-> f.file = "not_object",
     urls |-> IF f.file = "ok" THEN f.urls ELSE << Url(HubHost, "jobs", 0) >>]

load_start_urls(f) ==
    [raised |-> f.file = "not_object",
     urls |-> IF f.file = "ok" THEN f.urls ELSE << >>]

Init ==
    /\ pc = "load"
    /\ urls_file = "unread"
    /\ start_urls = << >> /\ seed_idx = 0
    /\ queue = << >> /\ visited_urls = {}
    /\ pages_crawled = 0 /\ successful_jobs = 0
    /\ scraped_jobs = << >>
    /\ driver = "none" /\ use_selenium = TRUE /\ session = "open"
    /\ saved = "no" /\ crashed = FALSE
    /\ api_received = << >> /\ popped = << >>
    /\ last = NoLast
    /\ fn_in = << >> /\ fn_out = << >>

\* crawl(), to its for loop: no start URLs, no crawl.
Load ==
    /\ pc = "load"
    /\ \E f \in LoadOutcomes :
         LET r == load_start_urls(f)
         IN  /\ urls_file' = f.file
             /\ start_urls' = r.urls
             /\ crashed' = r.raised
             /\ pc' = IF r.raised THEN "cleanup"
                      ELSE IF r.urls = << >> THEN "flush" ELSE "pass"
             /\ seed_idx' = IF r.raised \/ r.urls = << >> THEN 0 ELSE 1
    /\ UNCHANGED << queue, visited_urls, pages_crawled, successful_jobs,
                    scraped_jobs, driver, use_selenium, session, saved,
                    api_received, popped, last, fn_in, fn_out >>

\* The head of the for loop's body without visited_urls.clear() (what C13
\* rests on).
StartPass_KeepsVisited ==
    /\ pc = "pass"
    /\ queue' = << start_urls[seed_idx] >>
    /\ visited_urls' = visited_urls \cup {start_urls[seed_idx]}
    /\ pages_crawled' = 0
    /\ successful_jobs' = 0
    /\ popped' = << >>
    /\ last' = NoLast
    /\ pc' = "loop"
    /\ UNCHANGED << urls_file, start_urls, seed_idx, scraped_jobs, driver, use_selenium,
                    session, saved, crashed, api_received, fn_in, fn_out >>

\* The head of the for loop's body, were it to clear scraped_jobs with the
\* queue and the visited set (what C8 rests on).
StartPass_ClearsJobs ==
    /\ pc = "pass"
    /\ queue' = << start_urls[seed_idx] >>
    /\ visited_urls' = {start_urls[seed_idx]}
    /\ scraped_jobs' = << >>
    /\ pages_crawled' = 0
    /\ successful_jobs' = 0
    /\ popped' = << >>
    /\ last' = NoLast
    /\ pc' = "loop"
    /\ UNCHANGED << urls_file, start_urls, seed_idx, driver, use_selenium,
                    session, saved, crashed, api_received, fn_in, fn_out >>

\* The head of the for loop's body: the queue and the visited set start over.
StartPass ==
    /\ pc = "pass"
    /\ queue' = << start_urls[seed_idx] >>
    /\ visited_urls' = {start_urls[seed_idx]}
    /\ pages_crawled' = 0
    /\ successful_jobs' = 0
    /\ popped' = << >>
    /\ last' = NoLast
    /\ pc' = "loop"
    /\ UNCHANGED << urls_file, start_urls, seed_idx, scraped_jobs, driver, use_selenium,
                    session, saved, crashed, api_received, fn_in, fn_out >>

\* The loop condition with <= for < (what C2 rests on).
LoopCondition_OffByOne == queue # << >> /\ pages_crawled <= max_pages_per_domain

\* while self.queue and pages_crawled < self.max_pages_per_domain
LoopCondition == queue # << >> /\ pages_crawled < max_pages_per_domain

\* The enqueueing loop with appendleft for append (what C21 rests on).
RECURSIVE Enqueue_AppendsLeft(_, _, _)
Enqueue_AppendsLeft(links, q, v) ==
    IF links = << >> THEN [queue |-> q, visited |-> v]
    ELSE LET link == Head(links)
         IN  IF link \notin v /\ Len(q) < QueueCap
             THEN Enqueue_AppendsLeft(Tail(links), << link >> \o q, v \cup {link})
             ELSE Enqueue_AppendsLeft(Tail(links), q, v)

\* The enqueueing loop without its test of the queue's length (what C14 rests
\* on).
RECURSIVE Enqueue_NoLengthTest(_, _, _)
Enqueue_NoLengthTest(links, q, v) ==
    IF links = << >> THEN [queue |-> q, visited |-> v]
    ELSE LET link == Head(links)
         IN  IF link \notin v
             THEN Enqueue_NoLengthTest(Tail(links), Append(q, link), v \cup {link})
             ELSE Enqueue_NoLengthTest(Tail(links), q, v)

\* The enqueueing loop without its visited test (what C3 rests on).
RECURSIVE Enqueue_NoVisitedTest(_, _, _)
Enqueue_NoVisitedTest(links, q, v) ==
    IF links = << >> THEN [queue |-> q, visited |-> v]
    ELSE LET link == Head(links)
         IN  IF Len(q) < QueueCap
             THEN Enqueue_NoVisitedTest(Tail(links), Append(q, link), v \cup {link})
             ELSE Enqueue_NoVisitedTest(Tail(links), q, v)

\* for link in new_links: if link not in visited and len(queue) < 50: add, append
RECURSIVE Enqueue(_, _, _)
Enqueue(links, q, v) ==
    IF links = << >> THEN [queue |-> q, visited |-> v]
    ELSE LET link == Head(links)
         IN  IF link \notin v /\ Len(q) < QueueCap
             THEN Enqueue(Tail(links), Append(q, link), v \cup {link})
             ELSE Enqueue(Tail(links), q, v)

\* The loop's body, were it to append the record whether or not the push
\* succeeded (what C7 rests on).
CrawlStep_KeepsFailedPush(f, parsed, response, new_links, enq) ==
    LET current_url == Head(queue)
        rest == Tail(queue)
        push_ok == push_job_to_api(parsed.data, response)
    IN  IF ~MarkupTruthy(f.html)
        THEN [queue |-> rest, visited |-> visited_urls, jobs |-> scraped_jobs,
              successful |-> successful_jobs, received |-> api_received,
              log |-> [NoLast EXCEPT !.kind = "page", !.url = current_url,
                                     !.both_failed = f.both_failed]]
        ELSE [queue |-> enq.queue, visited |-> enq.visited,
              jobs |-> IF parsed.ok
                       THEN Append(scraped_jobs, parsed.data) ELSE scraped_jobs,
              successful |-> IF parsed.ok /\ push_ok
                             THEN successful_jobs + 1 ELSE successful_jobs,
              received |-> IF parsed.ok /\ response = "ok"
                           THEN Append(api_received, parsed.data) ELSE api_received,
              log |-> [kind |-> "page", url |-> current_url, fetched |-> TRUE,
                       parse_calls |-> 1, ollama_calls |-> parsed.ollama_calls,
                       push_attempts |-> IF parsed.ok THEN 1 ELSE 0,
                       push |-> IF ~parsed.ok THEN "none"
                                ELSE IF push_ok THEN "ok" ELSE "fail",
                       job |-> parsed.data,
                       links |-> new_links,
                       enqueued |-> Len(enq.queue) - Len(rest),
                       both_failed |-> f.both_failed]]

\* The loop's body, were it to put a URL whose fetch failed back in the queue
\* (what C10 rests on).
CrawlStep_RequeuesFailedFetch(f, parsed, response, new_links, enq) ==
    LET current_url == Head(queue)
        rest == Tail(queue)
        push_ok == push_job_to_api(parsed.data, response)
    IN  IF ~MarkupTruthy(f.html)
        THEN [queue |-> Append(rest, current_url), visited |-> visited_urls, jobs |-> scraped_jobs,
              successful |-> successful_jobs, received |-> api_received,
              log |-> [NoLast EXCEPT !.kind = "page", !.url = current_url,
                                     !.both_failed = f.both_failed]]
        ELSE [queue |-> enq.queue, visited |-> enq.visited,
              jobs |-> IF parsed.ok /\ push_ok
                       THEN Append(scraped_jobs, parsed.data) ELSE scraped_jobs,
              successful |-> IF parsed.ok /\ push_ok
                             THEN successful_jobs + 1 ELSE successful_jobs,
              received |-> IF parsed.ok /\ response = "ok"
                           THEN Append(api_received, parsed.data) ELSE api_received,
              log |-> [kind |-> "page", url |-> current_url, fetched |-> TRUE,
                       parse_calls |-> 1, ollama_calls |-> parsed.ollama_calls,
                       push_attempts |-> IF parsed.ok THEN 1 ELSE 0,
                       push |-> IF ~parsed.ok THEN "none"
                                ELSE IF push_ok THEN "ok" ELSE "fail",
                       job |-> parsed.data,
                       links |-> new_links,
                       enqueued |-> Len(enq.queue) - Len(rest),
                       both_failed |-> f.both_failed]]

\* What one pass of the while loop's body leaves, given what _fetch_page
\* returned (f), what _parse_job_page returns for the page (parsed), what the
\* endpoint does (response), the links _extract_links returns for the page
\* (new_links) and what enqueueing them makes of the queue and the visited set
\* (enq): [queue, visited, jobs (scraped_jobs), successful, received, log].
CrawlStep(f, parsed, response, new_links, enq) ==
    LET current_url == Head(queue)
        rest == Tail(queue)
        push_ok == push_job_to_api(parsed.data, response)
    IN  IF ~MarkupTruthy(f.html)
        THEN [queue |-> rest, visited |-> visited_urls, jobs |-> scraped_jobs,
              successful |-> successful_jobs, received |-> api_received,
              log |-> [NoLast EXCEPT !.kind = "page", !.url = current_url,
                                     !.both_failed = f.both_failed]]
        ELSE [queue |-> enq.queue, visited |-> enq.visited,
              jobs |-> IF parsed.ok /\ push_ok
                       THEN Append(scraped_jobs, parsed.data) ELSE scraped_jobs,
              successful |-> IF parsed.ok /\ push_ok
                             THEN successful_jobs + 1 ELSE successful_jobs,
              received |-> IF parsed.ok /\ response = "ok"
                           THEN Append(api_received, parsed.data) ELSE api_received,
              log |-> [kind |-> "page", url |-> current_url, fetched |-> TRUE,
                       parse_calls |-> 1, ollama_calls |-> parsed.ollama_calls,
                       push_attempts |-> IF parsed.ok THEN 1 ELSE 0,
                       push |-> IF ~parsed.ok THEN "none"
                                ELSE IF push_ok THEN "ok" ELSE "fail",
                       job |-> parsed.data,
                       links |-> new_links,
                       enqueued |-> Len(enq.queue) - Len(rest),
                       both_failed |-> f.both_failed]]

\* What _fetch_page can return and leave in driver and use_selenium, over
\* everything the network can do.
CrawlFetches ==
    {FetchPage([driver |-> driver, use_selenium |-> use_selenium], static, e1, e2) :
        static \in CrawlStatic, e1 \in CrawlSelenium, e2 \in CrawlSelenium}

\* What _parse_job_page can return for the page at u, over everything OLLama
\* can answer.
CrawlParses(u) == {ParseJobPage(Dom(u), u, o) : o \in CrawlOllama}

\* The body of the while loop, were a failed fetch to raise out of crawl()
\* (what C9 rests on).
CrawlPage_FailedFetchRaises ==
    /\ pc = "loop"
    /\ LoopCondition
    /\ LET current_url == Head(queue)
           new_links == ExtractLinks(Anchors(current_url), current_url, visited_urls)
           enq == Enqueue(new_links, Tail(queue), visited_urls)
       IN  \E f \in CrawlFetches :
             /\ driver' = f.driver
             /\ use_selenium' = f.use_selenium
             /\ crashed' = ~MarkupTruthy(f.html)
             /\ pc' = IF MarkupTruthy(f.html) THEN "loop" ELSE "cleanup"
             /\ \E r \in {CrawlStep(f, parsed, response, new_links, enq) :
                             parsed \in CrawlParses(current_url),
                             response \in PushResponses} :
                  /\ queue' = r.queue
                  /\ visited_urls' = r.visited
                  /\ scraped_jobs' = r.jobs
                  /\ successful_jobs' = r.successful
                  /\ api_received' = r.received
                  /\ last' = r.log
    /\ popped' = Append(popped, Head(queue))
    /\ pages_crawled' = pages_crawled + 1
    /\ UNCHANGED << urls_file, start_urls, seed_idx, session, saved, fn_in, fn_out >>

\* The body of the while loop, were it to count a page only when its fetch
\* returned markup (what C19 rests on).
CrawlPage_CountsFetchedOnly ==
    /\ pc = "loop"
    /\ LoopCondition
    /\ LET current_url == Head(queue)
           new_links == ExtractLinks(Anchors(current_url), current_url, visited_urls)
           enq == Enqueue(new_links, Tail(queue), visited_urls)
       IN  \E f \in CrawlFetches :
             /\ driver' = f.driver
             /\ use_selenium' = f.use_selenium
             /\ pages_crawled' = IF MarkupTruthy(f.html)
                                 THEN pages_crawled + 1 ELSE pages_crawled
             /\ \E r \in {CrawlStep(f, parsed, response, new_links, enq) :
                             parsed \in CrawlParses(current_url),
                             response \in PushResponses} :
                  /\ queue' = r.queue
                  /\ visited_urls' = r.visited
                  /\ scraped_jobs' = r.jobs
                  /\ successful_jobs' = r.successful
                  /\ api_received' = r.received
                  /\ last' = r.log
    /\ popped' = Append(popped, Head(queue))
    /\ UNCHANGED << pc, urls_file, start_urls, seed_idx, session, saved, crashed, fn_in, fn_out >>

\* The body of the while loop, once.
CrawlPage ==
    /\ pc = "loop"
    /\ LoopCondition
    /\ LET current_url == Head(queue)
           new_links == ExtractLinks(Anchors(current_url), current_url, visited_urls)
           enq == Enqueue(new_links, Tail(queue), visited_urls)
       IN  \E f \in CrawlFetches :
             /\ driver' = f.driver
             /\ use_selenium' = f.use_selenium
             /\ \E r \in {CrawlStep(f, parsed, response, new_links, enq) :
                             parsed \in CrawlParses(current_url),
                             response \in PushResponses} :
                  /\ queue' = r.queue
                  /\ visited_urls' = r.visited
                  /\ scraped_jobs' = r.jobs
                  /\ successful_jobs' = r.successful
                  /\ api_received' = r.received
                  /\ last' = r.log
    /\ popped' = Append(popped, Head(queue))
    /\ pages_crawled' = pages_crawled + 1
    /\ UNCHANGED << pc, urls_file, start_urls, seed_idx, session, saved, crashed, fn_in, fn_out >>

\* The while loop ends: the next start URL, or crawl() returns.
EndPass ==
    /\ pc = "loop"
    /\ ~LoopCondition
    /\ IF seed_idx < Len(start_urls)
       THEN seed_idx' = seed_idx + 1 /\ pc' = "pass"
       ELSE seed_idx' = seed_idx /\ pc' = "flush"
    /\ UNCHANGED << urls_file, start_urls, queue, visited_urls, pages_crawled, successful_jobs,
                    scraped_jobs, driver, use_selenium, session, saved, crashed,
                    api_received, popped, last, fn_in, fn_out >>

\* save_jobs_to_json without its test of the list (what C18 rests on).
SaveJobs_WritesAlways ==
    /\ pc = "flush"
    /\ \E write_ok \in BOOLEAN :
         /\ saved' = IF write_ok THEN "written" ELSE "error"
         /\ crashed' = ~write_ok
    /\ pc' = "cleanup"
    /\ UNCHANGED << urls_file, start_urls, seed_idx, queue, visited_urls, pages_crawled,
                    successful_jobs, scraped_jobs, driver, use_selenium, session,
                    api_received, popped, last, fn_in, fn_out >>

\* save_jobs_to_json in a main() without its finally: an exception ends the
\* run where it is raised (what C16 rests on).
SaveJobs_NoFinally ==
    /\ pc = "flush"
    /\ \E write_ok \in BOOLEAN :
         /\ saved' = IF scraped_jobs = << >> THEN "skipped"
                     ELSE IF write_ok THEN "written" ELSE "error"
         /\ crashed' = (scraped_jobs # << >> /\ ~write_ok)
         /\ pc' = IF scraped_jobs # << >> /\ ~write_ok THEN "done" ELSE "cleanup"
    /\ UNCHANGED << urls_file, start_urls, seed_idx, queue, visited_urls, pages_crawled,
                    successful_jobs, scraped_jobs, driver, use_selenium, session,
                    api_received, popped, last, fn_in, fn_out >>

\* save_jobs_to_json: writes the list if there is one; open() may raise.
SaveJobs ==
    /\ pc = "flush"
    /\ \E write_ok \in BOOLEAN :
         /\ saved' = IF scraped_jobs = << >> THEN "skipped"
                     ELSE IF write_ok THEN "written" ELSE "error"
         /\ crashed' = (scraped_jobs # << >> /\ ~write_ok)
    /\ pc' = "cleanup"
    /\ UNCHANGED << urls_file, start_urls, seed_idx, queue, visited_urls, pages_crawled,
                    successful_jobs, scraped_jobs, driver, use_selenium, session,
                    api_received, popped, last, fn_in, fn_out >>

\* cleanup, from main's finally: quits the driver if there is one, closes the
\* session.
Cleanup ==
    /\ pc = "cleanup"
    /\ driver' = IF driver = "live" THEN "quit" ELSE driver
    /\ session' = "closed"
    /\ pc' = "done"
    /\ UNCHANGED << urls_file, start_urls, seed_idx, queue, visited_urls, pages_crawled,
                    successful_jobs, scraped_jobs, use_selenium, saved, crashed,
                    api_received, popped, last, fn_in, fn_out >>

Next == Load \/ StartPass \/ CrawlPage \/ EndPass \/ SaveJobs \/ Cleanup

Spec == Init /\ [][Next]_vars

\* main() runs on one thread that nothing suspends, and every call in it
\* returns (the requests have timeouts): whatever step is next is taken.  For
\* CrawlPage weak fairness is written out, WF_vars(CrawlPage) being
\* []<>~ENABLED <<CrawlPage>>_vars \/ []<><<CrawlPage>>_vars: CrawlPage is enabled
\* exactly when it is the loop's turn and its condition holds, and the step that
\* counts a page is CrawlPage.
CrawlPageFair ==
    \/ []<>~(pc = "loop" /\ LoopCondition)
    \/ []<><<pages_crawled' = pages_crawled + 1>>_vars

FairSpec ==
    /\ Spec
    /\ WF_vars(Load \/ StartPass \/ EndPass \/ SaveJobs \/ Cleanup)
    /\ CrawlPageFair

(***************************************************************************)
(* _fetch_page on its own: one call, for every outcome of the two tiers.   *)
(***************************************************************************)
MarkupLens == {0, 400, JsHeavyLen - 1, JsHeavyLen, 5000}

\* The texts a tier can return: 'loading' needs room for the word.
Markups(src) ==
    {[src |-> src, len |-> l, loading |-> b] :
        <<l, b>> \in {x \in MarkupLens \X BOOLEAN : x[2] => x[1] > 0}}

StaticOutcomes == {NoMarkup} \cup Markups("static")
SeleniumOutcomes ==
    [setup_ok : BOOLEAN, page : {NoMarkup} \cup Markups("rendered")]

\* The driver is live only while use_selenium is on: only a failed build turns
\* it off, and a failed build leaves no driver.
FetchStates ==
    {st \in [driver : {"none", "live"}, use_selenium : BOOLEAN] :
        st.driver = "live" => st.use_selenium}

\* Outside a crawl the scraper is as __init__ left it.
CrawlIdle ==
    /\ urls_file = "unread"
    /\ start_urls = << >> /\ seed_idx = 0
    /\ queue = << >> /\ visited_urls = {}
    /\ pages_crawled = 0 /\ successful_jobs = 0
    /\ scraped_jobs = << >>
    /\ driver = "none" /\ use_selenium = TRUE /\ session = "open"
    /\ saved = "no" /\ crashed = FALSE
    /\ api_received = << >> /\ popped = << >>
    /\ last = NoLast

InitFetch ==
    /\ pc = "fetch_call"
    /\ fn_in \in [st : FetchStates, static : StaticOutcomes,
                   e1 : SeleniumOutcomes, e2 : SeleniumOutcomes]
    /\ fn_out = << >>
    /\ CrawlIdle

DoFetch ==
    /\ pc = "fetch_call"
    /\ fn_out' = FetchPage(fn_in.st, fn_in.static, fn_in.e1, fn_in.e2)
    /\ pc' = "fetch_ret"
    /\ UNCHANGED << fn_in, crawl_vars >>

SpecFetch == InitFetch /\ [][DoFetch]_vars

\* C6: during one call of _fetch_page, rendered retrieval (_fetch_page_selenium)
\* is attempted at most once, whatever the two tiers return.
C6_RenderedAtMostOnce ==
    pc = "fetch_ret" => fn_out.selenium_calls <= 1

\* A call of _fetch_page_selenium from state st with outcome e returns a page
\* source: there is a driver, or one can be built, and driver.get did not raise.
RenderedOk(st, e) == (st.driver = "live" \/ e.setup_ok) /\ e.page.src # "none"

\* Two results of a fetch are the same text: the same value, or both "".
SameContent(a, b) ==
    a = b \/ (a.src # "none" /\ b.src # "none" /\ a.len = 0 /\ b.len = 0)

\* C11 as stated: when the static retrieval succeeded (returned a text, be it
\* empty) and a rendered retrieval was attempted, _fetch_page returns rendered
\* markup iff one was obtained that is strictly longer than the static text,
\* and the static text otherwise; when the static retrieval failed, it returns
\* rendered markup whenever a rendered retrieval succeeded.
C11_RenderedIffLonger ==
    pc = "fetch_ret" =>
        /\ (fn_in.static.src = "static" /\ fn_out.selenium_calls > 0)
             => IF fn_out.html.src = "rendered"
                THEN fn_out.html.len > fn_in.static.len
                ELSE SameContent(fn_out.html, fn_in.static)
        /\ (fn_in.static.src = "none" /\ fn_in.st.use_selenium
               /\ RenderedOk(fn_in.st, fn_in.e1))
             => fn_out.html.src = "rendered"

\* C11, amended: when the static retrieval returned a non-empty text and a
\* rendered retrieval was attempted (the one attempt uses outcome e2),
\* _fetch_page returns the rendered page iff that retrieval succeeded and its
\* page is strictly longer than the static text, and the static text otherwise;
\* when the static retrieval failed or returned an empty text, it returns
\* rendered markup whenever the first rendered retrieval succeeded, and None
\* when it did not.
C11_RenderedSupersedes ==
    pc = "fetch_ret" =>
        /\ (MarkupTruthy(fn_in.static) /\ fn_out.selenium_calls > 0)
             => fn_out.html =
                  IF RenderedOk(fn_in.st, fn_in.e2)
                     /\ fn_in.e2.page.len > fn_in.static.len
                  THEN fn_in.e2.page ELSE fn_in.static
        /\ (~MarkupTruthy(fn_in.static) /\ fn_in.st.use_selenium)
             => IF RenderedOk(fn_in.st, fn_in.e1)
                THEN fn_out.html.src = "rendered"
                ELSE fn_out.html = NoMarkup

\* a thin static page was superseded by a longer rendered one
C11_Witness ==
    /\ pc = "fetch_ret"
    /\ MarkupTruthy(fn_in.static) /\ fn_out.selenium_calls = 1
    /\ fn_out.html.src = "rendered" /\ fn_out.html.len > fn_in.static.len

\* C20: _fetch_page calls _fetch_page_selenium only if use_selenium is on and
\* the static request failed or returned a text shorter than 1000 characters
\* or with 'loading' in it; a static text of 1000 characters or more without
\* 'loading' is returned as it is, with no such call; with use_selenium off
\* the result is what the static request returned.
C20_RenderedOnlyWhenCalledFor ==
    pc = "fetch_ret" =>
        LET static == fn_in.static
            thin == static.len < JsHeavyLen \/ static.loading
        IN  /\ fn_out.selenium_calls > 0
                 => (fn_in.st.use_selenium /\ (static.src = "none" \/ thin))
            /\ (static.src = "static" /\ ~thin)
                 => (fn_out.html = static /\ fn_out.selenium_calls = 0)
            /\ ~fn_in.st.use_selenium
                 => (fn_out.html = static /\ fn_out.selenium_calls = 0
                     /\ fn_out.driver_gets = 0)

\* with use_selenium on, a static text of exactly 1000 characters without
\* 'loading' came back as it was
C20_Witness ==
    /\ pc = "fetch_ret" /\ fn_in.st.use_selenium
    /\ fn_in.static.src = "static" /\ fn_in.static.len = JsHeavyLen
    /\ ~fn_in.static.loading
    /\ fn_out.html = fn_in.static /\ fn_out.selenium_calls = 0

(***************************************************************************)
(* _parse_job_page on its own: one call, for every markup of a small       *)
(* family and everything OLLama can answer.                                *)
(***************************************************************************)
ParseUrl == Url("example.com", "jobs", 9)

ParseDoms ==
    [title_elems : {<< >>, << [src |-> "h1", len |-> 12] >>,
                    << [src |-> "h1", len |-> 0], [src |-> "h2", len |-> 12] >>},
     desc_elems : {<< >>, << [src |-> "nav", len |-> DescMinLen] >>,
                   << [src |-> "content", len |-> DescMinLen + 1] >>,
                   << [src |-> "nav", len |-> 40],
                      [src |-> "content", len |-> DescMaxLen + 500] >>},
     loc_elems : {<< >>, << [src |-> "location", len |-> 6] >>},
     apply_elems : {<< >>, << NoUrl >>, << NoUrl, Rel("apply", 7) >>,
                    << Url("apply.example.org", "apply", 7) >>},
     img_elems : {<< >>, << Rel("logo", 1) >>}]

\* The JSON objects OLLama may answer: each key null, "" or a value.
OllamaGuesses ==
    [job_title : {NoText, [src |-> "ollama", len |-> 0], [src |-> "ollama", len |-> 9]},
     job_description : {NoText, [src |-> "ollama", len |-> 50]},
     job_location : {NoText, [src |-> "ollama", len |-> 6]},
     apply_url : {NoUrl, Rel("apply", 42), Url("example.com", "apply", 42)},
     company_image : {NoUrl, Url("cdn.example.com", "logo", 2)},
     date_posted : {NoDate, [src |-> "iso"], [src |-> "soon"]}]

\* The request failed, the answer was not a JSON object, or it was one.
OllamaOutcomes ==
    {[status |-> "error", guess |-> EmptyGuess],
     [status |-> "bad_json", guess |-> EmptyGuess]}
    \cup {[status |-> "ok", guess |-> g] : g \in OllamaGuesses}

InitParse ==
    /\ pc = "parse_call"
    /\ fn_in \in [dom : ParseDoms, url : {ParseUrl}, o : OllamaOutcomes]
    /\ fn_out = << >>
    /\ CrawlIdle

DoParse ==
    /\ pc = "parse_call"
    /\ fn_out' = ParseJobPage(fn_in.dom, fn_in.url, fn_in.o)
    /\ pc' = "parse_ret"
    /\ UNCHANGED << fn_in, crawl_vars >>

SpecParse == InitParse /\ [][DoParse]_vars

\* C5: when the structural pass finds no apply link, OLLama is asked and its
\* answer carries a relative apply_url, the record's apply_url is that
\* reference resolved against the page URL (https://example.com/apply/42 for
\* /apply/42 on https://example.com/jobs/9), not the page URL.
C5_OracleApplyUrlMerged ==
    (/\ pc = "parse_ret" /\ fn_out.ok
     /\ First(fn_in.dom.apply_elems, TruthyUrls(fn_in.dom.apply_elems), NoUrl) = NoUrl
     /\ fn_out.ollama_calls = 1
     /\ fn_in.o.status = "ok"
     /\ fn_in.o.guess.apply_url.form = "rel")
        => /\ fn_out.data.apply_url = urljoin(fn_in.url, fn_in.o.guess.apply_url)
           /\ fn_out.data.apply_url # fn_in.url

\* C12: a field the structural pass filled (title, description, location,
\* apply_url, company_image) has that very value in what _parse_job_page
\* ends with, whatever OLLama answers; a field it left empty is still empty or
\* has the value of OLLama's answer.
C12_StructuralValuesKept ==
    pc = "parse_ret" =>
        LET d == fn_out.structural
            r == fn_out.data
            g == fn_in.o.guess
        IN  /\ \A k \in {"job_title", "job_description", "job_location"} :
                 IF TextTruthy(d[k]) THEN r[k] = d[k] ELSE r[k] \in {d[k], g[k]}
            /\ \A k \in {"apply_url", "company_image"} :
                 IF UrlTruthy(d[k]) THEN r[k] = d[k] ELSE r[k] \in {d[k], g[k]}

\* OLLama answered with another title than the page's and with a location
\* the page lacks: the title stayed, the location was filled
C12_Witness ==
    /\ pc = "parse_ret" /\ fn_out.ollama_calls = 1 /\ fn_in.o.status = "ok"
    /\ TextTruthy(fn_out.structural.job_title)
    /\ TextTruthy(fn_in.o.guess.job_title)
    /\ fn_in.o.guess.job_title # fn_out.structural.job_title
    /\ UrlTruthy(fn_in.o.guess.apply_url)
    /\ ~TextTruthy(fn_out.structural.job_location)
    /\ fn_out.data.job_location = fn_in.o.guess.job_location
    /\ TextTruthy(fn_out.data.job_location)

\* C17: a page whose markup gives a title and a description of more than 100
\* characters but no apply link gives a record (not None) whose apply_url is
\* the page's URL, whether or not OLLama is asked (for a missing location) and
\* whatever apply_url it answers.
C17_ApplyUrlDefaultsToPage ==
    (/\ pc = "parse_ret"
     /\ TruthyTexts(fn_in.dom.title_elems) # {}
     /\ \E i \in 1..Len(fn_in.dom.desc_elems) : fn_in.dom.desc_elems[i].len > DescMinLen
     /\ TruthyUrls(fn_in.dom.apply_elems) = {})
        => /\ fn_out.ok
           /\ fn_out.data.apply_url = fn_in.url

\* such a page lacked a location, and OLLama answered with a location and an
\* apply_url of its own
C17_Witness ==
    /\ pc = "parse_ret" /\ fn_out.ok /\ fn_out.ollama_calls = 1
    /\ TruthyTexts(fn_in.dom.title_elems) # {}
    /\ TruthyUrls(fn_in.dom.apply_elems) = {}
    /\ fn_in.o.status = "ok" /\ fn_in.o.guess.apply_url = Rel("apply", 42)
    /\ fn_out.data.job_location = fn_in.o.guess.job_location
    /\ TextTruthy(fn_out.data.job_location)
    /\ fn_out.data.apply_url = fn_in.url

\* C22: _parse_job_page asks OLLama exactly when the page's markup left the
\* title, the description or the location empty, and then once; with all three
\* found it does not ask; when the request fails or the answer is not a JSON
\* object, every field keeps the value the structural pass gave it.
C22_OracleOnlyForMissing ==
    pc = "parse_ret" =>
        LET dom == fn_in.dom
            all_found ==
                /\ TruthyTexts(dom.title_elems) # {}
                /\ \E i \in 1..Len(dom.desc_elems) : dom.desc_elems[i].len > DescMinLen
                /\ TruthyTexts(dom.loc_elems) # {}
        IN  /\ fn_out.ollama_calls = IF all_found THEN 0 ELSE 1
            /\ all_found => fn_out.data = fn_out.structural
            /\ fn_in.o.status # "ok" => fn_out.data = fn_out.structural

\* a page with a title and a description but no location: OLLama was asked,
\* its answer was not JSON, and the record is the structural pass's
C22_Witness ==
    /\ pc = "parse_ret" /\ fn_out.ok /\ fn_out.ollama_calls = 1
    /\ fn_in.o.status = "bad_json"
    /\ ~TextTruthy(fn_out.data.job_location)
    /\ fn_out.data = fn_out.structural

(***************************************************************************)
(* Properties of the crawl.                                                *)
(***************************************************************************)
Range(s) == {s[i] : i \in 1..Len(s)}
NoDuplicates(s) == \A i, j \in 1..Len(s) : s[i] = s[j] => i = j
HasTitleAndDescription(job) ==
    TextTruthy(job.job_title) /\ TextTruthy(job.job_description)
\* A step of the while loop's body.
IsCrawlPage == pc = "loop" /\ pages_crawled' = pages_crawled + 1

\* C1: every record handed to push_job_to_api, and so every record of
\* scraped_jobs, has a non-empty title and a non-empty description; a page whose
\* title or description is empty after the structural pass and OLLama is not
\* pushed.
C1_PushedRecordsComplete ==
    /\ last.push_attempts > 0 => HasTitleAndDescription(last.job)
    /\ \A i \in 1..Len(scraped_jobs) : HasTitleAndDescription(scraped_jobs[i])
    /\ \A i \in 1..Len(api_received) : HasTitleAndDescription(api_received[i])
    /\ (last.fetched /\ ~HasTitleAndDescription(last.job))
         => (last.push_attempts = 0 /\ last.push = "none")

\* a page was rejected after OLLama was asked, with records already pushed
C1_Witness ==
    /\ scraped_jobs # << >>
    /\ last.fetched /\ last.ollama_calls = 1
    /\ ~TextTruthy(last.job.job_title) /\ TextTruthy(last.job.job_description)
    /\ last.push = "none"

\* C2: in every pass pages_crawled never exceeds max_pages_per_domain, and a
\* pass that has ended with URLs left in the queue (its queue was never empty
\* when the loop condition was evaluated) has crawled exactly that many.
C2_PageBudget ==
    /\ pages_crawled <= max_pages_per_domain
    /\ (pc \in {"pass", "flush", "cleanup", "done"} /\ queue # << >>)
         => pages_crawled = max_pages_per_domain

C2_Witness ==
    pc = "flush" /\ queue # << >> /\ pages_crawled = max_pages_per_domain

\* C3: within a pass no URL is enqueued twice: the URLs popped so far followed
\* by those in the queue (all that were enqueued, in order) hold no URL twice,
\* and each is in visited_urls.
C3_NoReEnqueue ==
    /\ NoDuplicates(popped \o queue)
    /\ Range(popped \o queue) \subseteq visited_urls

\* a page returned one link twice and it was enqueued (once)
C3_Witness ==
    /\ ~NoDuplicates(last.links)
    /\ last.enqueued > 0
    /\ Len(popped) > 1

\* C4: every link _extract_links returns has the netloc of the page it was
\* found on, and every URL in the queue has the netloc of the pass's start URL.
C4_SameHost ==
    /\ \A i \in 1..Len(last.links) : netloc(last.links[i]) = netloc(last.url)
    /\ pc = "loop" =>
         \A i \in 1..Len(queue) : netloc(queue[i]) = netloc(start_urls[seed_idx])

\* links of a page that also has anchors to other hosts were enqueued
C4_Witness ==
    /\ pc = "loop" /\ Len(queue) > 1 /\ last.enqueued > 0
    /\ \E i \in 1..Len(Anchors(last.url)) :
         netloc(urljoin(last.url, Anchors(last.url)[i])) # netloc(last.url)

\* C7 as stated: a record whose push failed is in scraped_jobs (and so in the
\* file save_jobs_to_json writes).
C7_FailedPushRetained ==
    last.push = "fail" => last.job \in Range(scraped_jobs)

\* C7, amended: a failed push leaves scraped_jobs as it was (the record is not
\* appended, the pass's count of jobs is not raised), and the push is not
\* repeated: the endpoint is tried once for the page and receives nothing.
C7_FailedPushDropped ==
    [][(IsCrawlPage /\ last'.push = "fail")
        => /\ scraped_jobs' = scraped_jobs
           /\ successful_jobs' = successful_jobs
           /\ api_received' = api_received
           /\ last'.push_attempts = 1]_vars

\* a push failed for a record that is not in the list, which holds others
C7_Witness ==
    /\ last.push = "fail"
    /\ scraped_jobs # << >>
    /\ last.job \notin Range(scraped_jobs)

\* C8: scraped_jobs is, in order, the records the endpoint accepted in the whole
\* run (never cleared between passes), its last record is the one just pushed,
\* and the pass's count of jobs is the length it gained in the pass.
C8_ListIsSuccessfulPushes ==
    /\ scraped_jobs = api_received
    /\ last.push = "ok"
         => (scraped_jobs # << >> /\ scraped_jobs[Len(scraped_jobs)] = last.job)
    /\ successful_jobs <= Len(scraped_jobs)

\* a push succeeded in a second pass, after records of the first
C8_Witness ==
    /\ pc = "loop" /\ seed_idx = 2
    /\ last.push = "ok"
    /\ successful_jobs = 1
    /\ Len(scraped_jobs) = 3

\* C10: when both tiers fail _fetch_page returns None, and an iteration whose
\* fetch returned nothing parses nothing, asks OLLama nothing, pushes nothing,
\* enqueues nothing, leaves visited_urls and the rest of the queue as they were,
\* counts the page and stays in the loop.
C10_FailedFetchSkipsPage ==
    [][IsCrawlPage
        => /\ last'.both_failed => ~last'.fetched
           /\ ~last'.fetched
                => /\ last'.parse_calls = 0 /\ last'.ollama_calls = 0
                   /\ last'.push_attempts = 0 /\ last'.push = "none"
                   /\ last'.enqueued = 0
                   /\ queue' = Tail(queue)
                   /\ visited_urls' = visited_urls
                   /\ scraped_jobs' = scraped_jobs
                   /\ api_received' = api_received
                   /\ pc' = "loop"]_vars

\* both tiers failed on a page of a pass with URLs left to crawl
C10_Witness ==
    /\ pc = "loop" /\ last.kind = "page"
    /\ last.both_failed /\ ~last.fetched
    /\ driver = "live"
    /\ queue # << >> /\ Len(popped) > 1

\* C13: a pass starts (nothing popped yet) with the queue holding its start
\* URL alone, visited_urls being that URL alone and no page counted, whatever
\* earlier passes left; all through the pass visited_urls holds URLs of the
\* start URL's host only.
C13_PassStartsFresh ==
    pc = "loop" =>
        /\ popped = << >>
             => /\ queue = << start_urls[seed_idx] >>
                /\ visited_urls = {start_urls[seed_idx]}
                /\ pages_crawled = 0 /\ successful_jobs = 0
        /\ \A u \in visited_urls : netloc(u) = netloc(start_urls[seed_idx])

\* the second pass over a start URL pushed a record the first had pushed: its
\* page, visited in the first pass, was enqueued and fetched again
C13_Witness ==
    /\ pc = "loop" /\ seed_idx = 2 /\ start_urls[1] = start_urls[2]
    /\ last.push = "ok" /\ last.enqueued > 0
    /\ ~NoDuplicates(scraped_jobs)

\* C14: the queue never holds more than 50 URLs, and an iteration that
\* enqueued links left it no longer than 50 however many links the page
\* returned: links are dropped once it holds 50.
C14_QueueCapped ==
    /\ Len(queue) <= QueueCap
    /\ last.enqueued <= Len(last.links)
    /\ (pc = "loop" /\ last.fetched /\ last.enqueued < Cardinality(Range(last.links)))
         => Len(queue) = QueueCap

\* a page returned more new links than the queue had room for
C14_Witness ==
    /\ pc = "loop" /\ Len(queue) = QueueCap
    /\ last.enqueued > 0
    /\ last.enqueued < Cardinality(Range(last.links))

C16_CleanupAlwaysRuns ==
    /\ <>(pc = "done" /\ session = "closed" /\ driver # "live")
    /\ [](pc # "done" => session = "open" /\ driver # "quit")
    /\ [][crashed' /\ ~crashed => pc' = "cleanup"]_vars
    /\ [][driver = "live" => driver' = IF pc = "cleanup" THEN "quit" ELSE "live"]_vars

\* a run is over in which a driver was built and save_jobs_to_json raised
C16_Witness ==
    /\ pc = "done" /\ crashed /\ saved = "error"
    /\ driver = "quit" /\ session = "closed"

\* C18: save_jobs_to_json with an empty scraped_jobs opens no file and returns
\* without an exception (it logs "No jobs to save"); it opens the file to write
\* exactly when the list is not empty, and only then can it raise.
C18_EmptyFlushWritesNothing ==
    (pc \in {"cleanup", "done"} /\ saved # "no")
        => IF scraped_jobs = << >>
           THEN saved = "skipped" /\ ~crashed
           ELSE saved \in {"written", "error"} /\ (crashed <=> saved = "error")

\* pages were crawled, no push succeeded, and the run is over
C18_Witness ==
    /\ pc = "done" /\ saved = "skipped" /\ ~crashed
    /\ pages_crawled > 1 /\ last.fetched /\ scraped_jobs = << >>

\* C19: at every evaluation of the loop condition pages_crawled is the number
\* of URLs popped in the pass, whether their fetches returned markup or None
\* and whether or not a record was found or pushed; the pass's count of pushed
\* jobs is at most pages_crawled.
C19_EveryPopCounted ==
    /\ pc = "loop" => pages_crawled = Len(popped)
    /\ successful_jobs <= pages_crawled
    /\ last.kind = "page" => pages_crawled > 0

\* a pass used up its budget on pages of which the last could not be fetched
C19_Witness ==
    /\ pc = "loop" /\ pages_crawled = max_pages_per_domain
    /\ Len(popped) = max_pages_per_domain
    /\ ~last.fetched /\ last.kind = "page"
    /\ queue # << >>

\* a is b with some elements left out, the rest in b's order.
RECURSIVE IsSubsequence(_, _)
IsSubsequence(a, b) ==
    IF a = << >> THEN TRUE
    ELSE IF b = << >> THEN FALSE
    ELSE IF Head(a) = Head(b) THEN IsSubsequence(Tail(a), Tail(b))
    ELSE IsSubsequence(a, Tail(b))

\* C21: within a pass the first URL fetched is the start URL, every iteration
\* fetches the head of the queue, the oldest URL enqueued and not yet fetched,
\* and leaves the rest of the queue in place with the page's new links after
\* it, in the order _extract_links returned them.
C21_FifoOrder ==
    /\ [](pc = "loop" /\ popped # << >>
            => /\ popped[1] = start_urls[seed_idx]
               /\ popped[Len(popped)] = last.url)
    /\ [][IsCrawlPage
            => /\ last'.url = Head(queue)
               /\ Len(queue') >= Len(queue) - 1
               /\ SubSeq(queue', 1, Len(queue) - 1) = Tail(queue)
               /\ IsSubsequence(SubSeq(queue', Len(queue), Len(queue')), last'.links)
               /\ last'.enqueued = Len(queue') - (Len(queue) - 1)]_vars

\* a page other than the start URL was fetched with URLs waiting behind it,
\* and several of its links joined the queue
C21_Witness ==
    /\ pc = "loop" /\ Len(popped) > 1
    /\ last.fetched /\ last.enqueued > 1
    /\ Len(queue) > last.enqueued
    /\ queue[Len(queue)] \in Range(last.links)

====
